---- MODULE Spec2Model ----
(***************************************************************************)
(* chadtree/fs/ops.py: the path-set reducer (ancestors, unify_ancestors)   *)
(* and the batch file-system operations (new, rename, remove, cut, copy),  *)
(* each fanned out over the shared worker pool.                            *)
(*                                                                         *)
(* A path is a Python str, modelled as a sequence of one-character         *)
(* strings, so that PurePath's parsing and str()'s formatting are          *)
(* computed and not assumed.  POSIX flavour (os.name # "nt").              *)
(***************************************************************************)
EXTENDS Integers, Sequences, FiniteSets, TLC

\* ---------------------------------------------------------------- bounds
\* longest path string drawn as an input of unify_ancestors
MaxLen == 4
\* largest set of paths handed to unify_ancestors
MaxPaths == 3

\* the separator, os.sep
sep == "/"
\* the characters path strings are drawn from
Chars == {sep, "a"}

\* ------------------------------------------------------------ str helpers
\* str.lstrip(sep)
RECURSIVE lstrip(_)
lstrip(s) == IF s # <<>> /\ Head(s) = sep THEN lstrip(Tail(s)) ELSE s

\* str.split(sep): the segments between separators, empty ones included
RECURSIVE split(_)
split(s) ==
  IF \A i \in 1..Len(s) : s[i] # sep THEN <<s>>
  ELSE LET i == CHOOSE k \in 1..Len(s) :
                  s[k] = sep /\ \A j \in 1..(k - 1) : s[j] # sep
       IN <<SubSeq(s, 1, i - 1)>> \o split(SubSeq(s, i + 1, Len(s)))

\* sep.join(names)
RECURSIVE sep_join(_)
sep_join(names) ==
  IF names = <<>> THEN <<>>
  ELSE IF Len(names) = 1 THEN names[1]
  ELSE names[1] \o <<sep>> \o sep_join(Tail(names))

\* ------------------------------------------------------ pathlib.PurePath
\* _PosixFlavour.splitroot: exactly two leading separators are kept as the
\* root "//", any other positive number collapses to "/"
splitroot(part) ==
  LET stripped == lstrip(part)
      n == Len(part) - Len(stripped)
  IN [root |-> IF n = 0 THEN <<>> ELSE IF n = 2 THEN <<sep, sep>> ELSE <<sep>>,
      rel  |-> stripped]

\* PurePath(path): the root and the names, empty and "." segments dropped
parse_parts(path) ==
  LET sr == splitroot(path)
  IN [root  |-> sr.root,
      names |-> SelectSeq(split(sr.rel), LAMBDA x : x # <<>> /\ x # <<".">>)]

\* str(PurePath): root + sep.join(names), or "." when both are empty
format_parsed_parts(root, names) ==
  IF root = <<>> /\ names = <<>> THEN <<".">> ELSE root \o sep_join(names)

\* PurePath(path).parents, each as str
parents(path) ==
  LET p == parse_parts(path)
  IN {format_parsed_parts(p.root, SubSeq(p.names, 1, k)) :
        k \in 0..(Len(p.names) - 1)}

\* def ancestors(path): {str(p) for p in PurePath(path).parents}
ancestors(path) == parents(path)

\* a reducer that keeps the paths with an ancestor in the set: the test negated
unify_ancestors_negated(paths) ==
  {p \in paths : ancestors(p) \cap paths # {}}

\* a reducer that looks at the parent only (.parent for .parents)
unify_ancestors_parent_only(paths) ==
  {p \in paths :
     \A q \in ancestors(p) \cap paths : \E r \in ancestors(p) : q \in ancestors(r)}

\* def unify_ancestors(paths):
\*     return {p for p in paths if ancestors(p).isdisjoint(paths)}
unify_ancestors(paths) ==
  {p \in paths : ancestors(p) \cap paths = {}}

\* ------------------------------------------------------------ os.path
\* str.endswith(sep)
endswith_sep(path) == path # <<>> /\ path[Len(path)] = sep

\* str.rstrip(sep)
RECURSIVE rstrip(_)
rstrip(s) == IF endswith_sep(s) THEN rstrip(SubSeq(s, 1, Len(s) - 1)) ELSE s

\* str.rfind(sep) + 1: the length of the head that ends with the last separator
rfind1(p) ==
  IF \A i \in 1..Len(p) : p[i] # sep THEN 0
  ELSE CHOOSE i \in 1..Len(p) : p[i] = sep /\ \A j \in (i + 1)..Len(p) : p[j] # sep

\* posixpath.dirname
dirname(p) ==
  LET head == SubSeq(p, 1, rfind1(p))
  IN IF head # <<>> /\ (\E i \in 1..Len(head) : head[i] # sep)
       THEN rstrip(head) ELSE head

\* posixpath.basename
basename(p) == SubSeq(p, rfind1(p) + 1, Len(p))

\* posixpath.join(a, b) for a relative b
path_join(a, b) == IF a = <<>> \/ endswith_sep(a) THEN a \o b ELSE a \o <<sep>> \o b

\* ------------------------------------------------------ the file system
\* A location is the sequence of names the kernel walks from the root; the
\* file system maps every existing location but the root to its entry.
Loc(path) == SelectSeq(split(path), LAMBDA x : x # <<>> /\ x # <<".">>)

Parent(l) == SubSeq(l, 1, Len(l) - 1)
IsPrefix(a, b) == Len(a) <= Len(b) /\ SubSeq(b, 1, Len(a)) = a
Exists(f, l) == l = <<>> \/ l \in DOMAIN f
IsDir(f, l) == l = <<>> \/ (l \in DOMAIN f /\ f[l].kind = "dir")
IsFile(f, l) == l \in DOMAIN f /\ f[l].kind = "file"
\* the entries below l, and those directly in l
Under(f, l) == {m \in DOMAIN f : IsPrefix(l, m) /\ m # l}
Children(f, l) == {m \in Under(f, l) : Len(m) = Len(l) + 1}

Dir == [kind |-> "dir", data |-> 0]
File(d) == [kind |-> "file", data |-> d]
\* a symbolic link; data is the path readlink returns
Link(t) == [kind |-> "link", data |-> t]
IsLink(f, l) == l \in DOMAIN f /\ f[l].kind = "link"
Without(f, S) == [m \in DOMAIN f \ S |-> f[m]]
With(f, l, e) == [m \in DOMAIN f \cup {l} |-> IF m = l THEN e ELSE f[m]]

\* the kernel's walk of the names in rest from the location at: a link on the
\* way is replaced by its target, the last name only when follow_last.  (No
\* link of the file systems here leads back to itself.)
RECURSIVE walk(_, _, _, _)
walk(f, at, rest, follow_last) ==
  IF rest = <<>> THEN at
  ELSE LET n == at \o <<Head(rest)>>
       IN IF IsLink(f, n) /\ (Len(rest) > 1 \/ follow_last)
            THEN walk(f, <<>>, Loc(f[n].data) \o Tail(rest), follow_last)
            ELSE walk(f, n, Tail(rest), follow_last)

\* where a path leads when the call follows a final link (stat, open, utime)
Followed(f, path) == walk(f, <<>>, Loc(path), TRUE)
\* where it leads when the call does not (lstat, unlink, rmdir, rename): a
\* final link is still followed when the path ends with the separator
Real(f, path) == walk(f, <<>>, Loc(path), endswith_sep(path))

\* what a system call finds where the walk of path has led, at l: "dir",
\* "file", "link", or the errno
lookup_at(f, l, path) ==
  IF IsDir(f, l) THEN "dir"
  ELSE IF IsFile(f, l) THEN (IF endswith_sep(path) THEN "ENOTDIR" ELSE "file")
  ELSE IF IsLink(f, l) THEN "link"
  ELSE IF \E k \in 1..(Len(l) - 1) : IsFile(f, SubSeq(l, 1, k)) THEN "ENOTDIR"
  ELSE "ENOENT"

\* the path walk of a system call that does not follow a final link
lookup(f, path) == lookup_at(f, Real(f, path), path)

IsErrno(r) == r \in {"ENOENT", "ENOTDIR"}
\* the OSError subclass Python raises for an errno
OSError(r) == IF r = "ENOENT" THEN "FileNotFoundError" ELSE "NotADirectoryError"

\* the subtree at s moved to d (d and what was below it replaced)
Moved(f, s, d) ==
  LET sub == {s} \cup Under(f, s)
      kept == DOMAIN f \ (sub \cup {d} \cup Under(f, d))
      to(m) == d \o SubSeq(m, Len(s) + 1, Len(m))
  IN [n \in kept \cup {to(m) : m \in sub} |->
        IF \E m \in sub : to(m) = n
          THEN f[CHOOSE m \in sub : to(m) = n] ELSE f[n]]

\* the subtree at s copied to d, the missing ancestors of d made directories
Copied(f, s, d) ==
  LET sub == {s} \cup Under(f, s)
      to(m) == d \o SubSeq(m, Len(s) + 1, Len(m))
      ups == {SubSeq(d, 1, k) : k \in 1..(Len(d) - 1)} \ DOMAIN f
  IN [n \in DOMAIN f \cup ups \cup {to(m) : m \in sub} |->
        IF \E m \in sub : to(m) = n THEN f[CHOOSE m \in sub : to(m) = n]
        ELSE IF n \in ups THEN Dir ELSE f[n]]


\* ------------------------------------------------- the work items' steps
\* A work item is one call of a primitive on a pool worker:
\* [src, dest, pc, err, levels, todo, real]; a step is one system call (or
\* one library call taken as a whole where noted) and yields the set of
\* [fs, it] it can end in.
\* an item that has ended keeps its outcome and drops its locals
Ended(it, pc, e) ==
  [it EXCEPT !.pc = pc, !.err = e, !.levels = <<>>, !.todo = {}, !.real = <<>>]
Fail(f, it, e) == {[fs |-> f, it |-> Ended(it, "failed", e)]}
Goto(f, it, pc) == {[fs |-> f, it |-> [it EXCEPT !.pc = pc]]}
Done(f, it) == {[fs |-> f, it |-> Ended(it, "done", "none")]}

\* what keeps an entry from being made at l: a file on the way, a missing parent
ParentErr(f, l) ==
  IF \E k \in 1..(Len(l) - 1) : IsFile(f, SubSeq(l, 1, k)) THEN "ENOTDIR"
  ELSE IF ~Exists(f, Parent(l)) THEN "ENOENT"
  ELSE "ok"

\* os.makedirs(name, exist_ok=True), the way up: it recurses on the parent
\* while os.path.exists(parent) is false, so the levels to make are name and
\* the ancestors missing now, outermost first
makedirs(f, it, name) ==
  LET l == Loc(name)
      gone == {k \in 1..(Len(l) - 1) : ~Exists(f, SubSeq(l, 1, k))}
      kmin == IF gone = {} THEN Len(l) ELSE CHOOSE k \in gone : \A j \in gone : k <= j
  IN {[fs |-> f,
       it |-> [it EXCEPT !.pc = "mkdir",
                         !.levels = [j \in 1..(Len(l) - kmin + 1) |->
                                       SubSeq(l, 1, kmin + j - 1)]]]}

\* an os.makedirs that does not expect an ancestor to appear while it runs:
\* FileExistsError of an ancestor is raised
mkdir_racy(f, it, after) ==
  LET l == Head(it.levels)
      last == Len(it.levels) = 1
      on == IF last /\ after = "done" THEN Ended(it, "done", "none")
            ELSE [it EXCEPT !.levels = Tail(@), !.pc = IF last THEN after ELSE @]
  IN IF Exists(f, l)
       THEN IF ~last \/ ~IsDir(f, l) THEN Fail(f, it, "FileExistsError")
            ELSE {[fs |-> f, it |-> on]}
     ELSE IF ParentErr(f, l) # "ok" THEN Fail(f, it, OSError(ParentErr(f, l)))
     ELSE {[fs |-> With(f, l, Dir), it |-> on]}

\* os.makedirs, one os.mkdir on the way down: FileExistsError is swallowed for
\* an ancestor, and for name itself when it is a directory
mkdir(f, it, after) ==
  LET l == Head(it.levels)
      last == Len(it.levels) = 1
      on == IF last /\ after = "done" THEN Ended(it, "done", "none")
            ELSE [it EXCEPT !.levels = Tail(@), !.pc = IF last THEN after ELSE @]
  IN IF Exists(f, l)
       THEN IF last /\ ~IsDir(f, l) THEN Fail(f, it, "FileExistsError")
            ELSE {[fs |-> f, it |-> on]}
     ELSE IF ParentErr(f, l) # "ok" THEN Fail(f, it, OSError(ParentErr(f, l)))
     ELSE {[fs |-> With(f, l, Dir), it |-> on]}

\* a touch that opens the file for writing: an existing file is truncated
touch_utime_truncating(f, it) ==
  LET l == Loc(it.src)
  IN IF IsFile(f, l) THEN Done(With(f, l, File(0)), it)
     ELSE IF IsDir(f, l) THEN Fail(f, it, "IsADirectoryError")
     ELSE Goto(f, it, "open")

\* Path(path).touch(exist_ok=True), os.utime first: any existing entry is
\* left as it is (its timestamps aside, which the model does not keep)
touch_utime(f, it) ==
  IF Exists(f, Loc(it.src)) THEN Done(f, it) ELSE Goto(f, it, "open")

\* Path(path).touch, then os.open(path, O_CREAT | O_WRONLY): no O_TRUNC
touch_open(f, it) ==
  LET l == Loc(it.src)
  IN IF IsFile(f, l) THEN Done(f, it)
     ELSE IF IsDir(f, l) THEN Fail(f, it, "IsADirectoryError")
     ELSE IF ParentErr(f, l) # "ok" THEN Fail(f, it, OSError(ParentErr(f, l)))
     ELSE Done(With(f, l, File(0)), it)

\* def _new(path)
_new(f, it) ==
  CASE it.pc = "makedirs" ->
         makedirs(f, it, IF endswith_sep(it.src) THEN it.src ELSE dirname(it.src))
    [] it.pc = "mkdir" ->
         mkdir(f, it, IF endswith_sep(it.src) THEN "done" ELSE "utime")
    [] it.pc = "utime" -> touch_utime(f, it)
    [] it.pc = "open" -> touch_open(f, it)

\* an os.remove that takes a missing path for removed
rm_force(f, it) ==
  LET st == lookup(f, it.src)
  IN IF st = "ENOENT" THEN Done(f, it)
     ELSE IF IsErrno(st) THEN Fail(f, it, OSError(st))
     ELSE IF st = "dir" THEN Fail(f, it, "IsADirectoryError")
     ELSE Done(Without(f, {Real(f, it.src)}), it)

\* os.remove(path)
rm(f, it) ==
  LET st == lookup(f, it.src)
  IN IF IsErrno(st) THEN Fail(f, it, OSError(st))
     ELSE IF st = "dir" THEN Fail(f, it, "IsADirectoryError")
     ELSE Done(Without(f, {Real(f, it.src)}), it)

\* shutil.rmtree(path), its start: the entries to delete.  (rmtree lists one
\* directory at a time; the model lists the subtree at once.)
rmtree(f, it) ==
  LET st == lookup(f, it.src)
  IN IF IsErrno(st) THEN Fail(f, it, OSError(st))
     ELSE IF st = "file" THEN Fail(f, it, "NotADirectoryError")
     ELSE IF st = "link" THEN Fail(f, it, "OSError")
     ELSE {[fs |-> f,
            it |-> [it EXCEPT !.pc = "unlink", !.todo = Under(f, Real(f, it.src))]]}

\* shutil.rmtree, one os.unlink or os.rmdir: the listed entries innermost
\* first in any order, then path itself; an entry that is gone, or a directory
\* that has entries left, raises, and so does os.rmdir of a path that leads
\* through a final link
rmtree_unlink(f, it) ==
  IF it.todo = {}
    THEN LET l == Real(f, it.src)
         IN IF ~Exists(f, l) THEN Fail(f, it, "FileNotFoundError")
            ELSE IF IsLink(f, walk(f, <<>>, Loc(it.src), FALSE))
              THEN Fail(f, it, "NotADirectoryError")
            ELSE IF Children(f, l) # {} THEN Fail(f, it, "OSError")
            ELSE Done(Without(f, {l}), it)
  ELSE UNION {
         IF ~Exists(f, l) THEN Fail(f, it, "FileNotFoundError")
         ELSE IF Children(f, l) # {} THEN Fail(f, it, "OSError")
         ELSE {[fs |-> Without(f, {l}), it |-> [it EXCEPT !.todo = @ \ {l}]]}
         : l \in {m \in it.todo : \A n \in it.todo : ~(IsPrefix(m, n) /\ m # n)}}

\* a _remove whose stat follows a final link
_remove_following(f, it) ==
  CASE it.pc = "stat" ->
         LET st == lookup(f, it.src)
         IN IF IsErrno(st) THEN Fail(f, it, OSError(st))
            ELSE IF st = "dir" \/ IsDir(f, Followed(f, it.src)) THEN Goto(f, it, "rmtree")
            ELSE Goto(f, it, "rm")
    [] it.pc = "rmtree" -> rmtree(f, it)
    [] it.pc = "unlink" -> rmtree_unlink(f, it)
    [] it.pc = "rm" -> rm(f, it)

\* def _remove(path)
_remove(f, it) ==
  CASE it.pc = "stat" ->
         LET st == lookup(f, it.src)
         IN IF IsErrno(st) THEN Fail(f, it, OSError(st))
            ELSE IF st = "dir" THEN Goto(f, it, "rmtree")
            ELSE Goto(f, it, "rm")
    [] it.pc = "rmtree" -> rmtree(f, it)
    [] it.pc = "unlink" -> rmtree_unlink(f, it)
    [] it.pc = "rm" -> rm(f, it)


\* shutil.copytree(src, dst): os.makedirs(dst) refuses an existing dst and
\* makes its missing ancestors, then the listed entries are copied.  (Taken
\* as one step.)
copytree(f, it, dst) ==
  LET st == lookup(f, it.src)
      d == Loc(dst)
  IN IF IsErrno(st) THEN Fail(f, it, OSError(st))
     ELSE IF st = "file" THEN Fail(f, it, "NotADirectoryError")
     ELSE IF Exists(f, d) THEN Fail(f, it, "FileExistsError")
     ELSE IF ParentErr(f, d) = "ENOTDIR" THEN Fail(f, it, "NotADirectoryError")
     ELSE {[fs |-> Copied(f, Loc(it.src), d), it |-> it]}

\* shutil.copy2(src, dst): into dst when dst is a directory, else onto dst,
\* which is created or overwritten.  (Taken as one step.)
copy2(f, it, dst) ==
  LET st == lookup(f, it.src)
      s == Loc(it.src)
      d == IF IsDir(f, Loc(dst)) THEN Loc(dst) \o <<basename(it.src)>> ELSE Loc(dst)
  IN IF IsErrno(st) THEN Fail(f, it, OSError(st))
     ELSE IF st = "dir" \/ IsDir(f, d) THEN Fail(f, it, "IsADirectoryError")
     ELSE IF endswith_sep(dst) /\ ~IsDir(f, Loc(dst))
       THEN Fail(f, it, IF ParentErr(f, d) = "ENOTDIR" THEN "NotADirectoryError"
                        ELSE "FileNotFoundError")
     ELSE IF d = s THEN Fail(f, it, "SameFileError")
     ELSE IF ParentErr(f, d) # "ok" THEN Fail(f, it, OSError(ParentErr(f, d)))
     ELSE {[fs |-> With(f, d, File(f[s].data)), it |-> it]}

\* shutil.move(src, dst), its start: a dst that is a directory is moved into
mv(f, it) ==
  IF IsDir(f, Loc(it.dest))
    THEN IF Loc(it.src) = Loc(it.dest) THEN Done(f, it)
         ELSE LET real_dst == path_join(it.dest, basename(rstrip(it.src)))
              IN IF Exists(f, Loc(real_dst)) THEN Fail(f, it, "Error")
                 ELSE {[fs |-> f, it |-> [it EXCEPT !.pc = "os_rename", !.real = real_dst]]}
  ELSE {[fs |-> f, it |-> [it EXCEPT !.pc = "os_rename", !.real = it.dest]]}

\* whether os.rename(src, real_dst) succeeds
rename_ok(f, src, real_dst) ==
  LET st == lookup(f, src)
      s == Loc(src)
      d == Loc(real_dst)
  IN /\ ~IsErrno(st)
     /\ ParentErr(f, d) = "ok"
     /\ ~(st = "file" /\ endswith_sep(real_dst))
     /\ \/ s = d
        \/ /\ ~(st = "dir" /\ IsPrefix(s, d))
           /\ \/ ~Exists(f, d)
              \/ IsFile(f, d) /\ st = "file"
              \/ IsDir(f, d) /\ st = "dir" /\ Children(f, d) = {} /\ d # <<>>

\* shutil.move, os.rename(src, real_dst); any OSError leads to the copy
mv_rename(f, it) ==
  IF rename_ok(f, it.src, it.real)
    THEN IF Loc(it.src) = Loc(it.real) THEN Done(f, it)
         ELSE Done(Moved(f, Loc(it.src), Loc(it.real)), it)
  ELSE Goto(f, it, "mv_copy")

\* shutil.move when os.rename raised: copytree and rmtree for a directory,
\* copy2 and os.unlink otherwise.  (Taken as one step.)
mv_copy(f, it) ==
  LET s == Loc(it.src)
  IN IF lookup(f, it.src) = "dir"
       THEN IF IsPrefix(s, Loc(it.dest)) THEN Fail(f, it, "Error")
            ELSE {IF o.it.pc = "failed" THEN o
                  ELSE [fs |-> Without(o.fs, {s} \cup Under(o.fs, s)),
                        it |-> Ended(o.it, "done", "none")]
                  : o \in copytree(f, it, it.real)}
     ELSE {IF o.it.pc = "failed" THEN o
           ELSE [fs |-> Without(o.fs, {s}), it |-> Ended(o.it, "done", "none")]
           : o \in copy2(f, it, it.real)}

\* def _rename(src, dest)
_rename(f, it) ==
  CASE it.pc = "makedirs" -> makedirs(f, it, dirname(it.dest))
    [] it.pc = "mkdir" -> mkdir(f, it, "mv")
    [] it.pc = "mv" -> mv(f, it)
    [] it.pc = "os_rename" -> mv_rename(f, it)
    [] it.pc = "mv_copy" -> mv_copy(f, it)

\* def _cut(src, dest)
_cut(f, it) ==
  CASE it.pc = "mv" -> mv(f, it)
    [] it.pc = "os_rename" -> mv_rename(f, it)
    [] it.pc = "mv_copy" -> mv_copy(f, it)

\* def _copy(src, dest)
_copy(f, it) ==
  CASE it.pc = "stat" ->
         LET st == lookup(f, it.src)
         IN IF IsErrno(st) THEN Fail(f, it, OSError(st))
            ELSE IF st = "dir" THEN Goto(f, it, "copytree")
            ELSE Goto(f, it, "copy2")
    [] it.pc = "copytree" ->
         {IF o.it.pc = "failed" THEN o ELSE [o EXCEPT !.it.pc = "done"]
          : o \in copytree(f, it, it.dest)}
    [] it.pc = "copy2" ->
         {IF o.it.pc = "failed" THEN o ELSE [o EXCEPT !.it.pc = "done"]
          : o \in copy2(f, it, it.dest)}


\* ------------------------------------------------------------- fs_stat
\* the permission bits, owner, group and mtime of an inode
Inode(perm, uid, gid, mtime) ==
  [perm |-> perm, uid |-> uid, gid |-> gid, mtime |-> mtime]

\* stat.S_IFDIR, S_IFREG, S_IFLNK: the file type bits of st_mode
S_IFMT(mode) == (mode \div 4096) * 4096
S_IF(kind) == IF kind = "dir" THEN 16384 ELSE IF kind = "file" THEN 32768 ELSE 40960
S_ISLNK(mode) == S_IFMT(mode) = S_IF("link")

\* os.stat(path, follow_symlinks=...): the stat_result, or the errno.  The
\* size of a file is its content, that of a link the length of its target.
os_stat(f, m, path, follow_symlinks) ==
  LET l == IF follow_symlinks THEN Followed(f, path) ELSE Real(f, path)
      k == lookup_at(f, l, path)
  IN IF IsErrno(k) THEN [errno |-> k]
     ELSE [errno |-> "none",
           st_mode |-> S_IF(k) + m[k].perm,
           st_uid |-> m[k].uid,
           st_gid |-> m[k].gid,
           st_mtime |-> m[k].mtime,
           st_size |-> IF k = "dir" THEN 0
                       ELSE IF k = "file" THEN f[l].data ELSE Len(f[l].data)]

\* stat.filemode(mode): the type letter and rwx for the nine permission bits
filemode(mode) ==
  LET fmt == S_IFMT(mode)
      letter == IF fmt = S_IF("dir") THEN "d" ELSE IF fmt = S_IF("link") THEN "l" ELSE "-"
      bit(i) == (mode \div (2 ^ (9 - i))) % 2 = 1
      rwx == <<"r", "w", "x">>
  IN <<letter>> \o [i \in 1..9 |-> IF bit(i) THEN rwx[((i - 1) % 3) + 1] ELSE "-"]

\* str(n) of a non-negative int: its decimal digits
RECURSIVE str(_)
str(n) ==
  LET digits == <<"0", "1", "2", "3", "4", "5", "6", "7", "8", "9">>
  IN IF n < 10 THEN <<digits[n + 1]>> ELSE str(n \div 10) \o <<digits[(n % 10) + 1]>>

\* the user and group databases getpwuid and getgrgid read
passwd == (0 :> <<"r", "o", "o", "t">>) @@ (1000 :> <<"u", "s", "e", "r">>)
group == (0 :> <<"r", "o", "o", "t">>) @@ (1000 :> <<"s", "t", "a", "f", "f">>)

\* a _get_username whose fallback for an unknown uid is the empty name
_get_username_blank(osn, uid) ==
  IF osn = "nt" THEN str(uid)
  ELSE IF uid \in DOMAIN passwd THEN passwd[uid] ELSE <<>>

\* def _get_username(uid): getpwuid raises KeyError for a uid it has not
_get_username(osn, uid) ==
  IF osn = "nt" THEN str(uid)
  ELSE IF uid \in DOMAIN passwd THEN passwd[uid] ELSE str(uid)

\* def _get_groupname(gid)
_get_groupname(osn, gid) ==
  IF osn = "nt" THEN str(gid)
  ELSE IF gid \in DOMAIN group THEN group[gid] ELSE str(gid)

\* datetime.fromtimestamp(t): the day and the time of day
fromtimestamp(t) ==
  [day |-> t \div 86400, hour |-> (t % 86400) \div 3600,
   minute |-> (t % 3600) \div 60, second |-> t % 60]

\* Optional[str]: None
None == <<"None">>
\* no call of fs_stat made
NoStat == [status |-> "none"]

\* FSstat(...) of a stat_result, or what stat raised
FSstat(f, osn, path, stats) ==
  IF stats.errno # "none" THEN [status |-> "raised", err |-> OSError(stats.errno)]
  ELSE [status |-> "returned",
        permissions |-> filemode(stats.st_mode),
        user |-> _get_username(osn, stats.st_uid),
        group |-> _get_groupname(osn, stats.st_gid),
        date_mod |-> fromtimestamp(stats.st_mtime),
        size |-> stats.st_size,
        link |-> IF S_ISLNK(stats.st_mode) THEN f[Real(f, path)].data ELSE None]

\* an fs_stat whose stat follows a final link
fs_stat_following(f, m, osn, path) == FSstat(f, osn, path, os_stat(f, m, path, TRUE))

\* def fs_stat(path)
fs_stat(f, m, osn, path) == FSstat(f, osn, path, os_stat(f, m, path, FALSE))

\* ----------------------------------------------------------------- state
VARIABLES
  paths,      \* the paths the caller selected (the argument of unify_ancestors)
  unified,    \* unify_ancestors(paths)
  reunified,  \* unify_ancestors(unified)
  upc,        \* "input", "unified", "reunified": how far the reduction went
  fs,         \* the file system: location -> [kind, data]
  fs0,        \* the file system when the running (or last) batch was called
  op,         \* the batch entry point called: "new", "rename", "remove", ...
  items,      \* the work items of the batch: <<src, dest>> -> item
  caller,     \* "idle", or "blocked" inside the entry point
  ret,        \* how the last call ended: "none", "ok", "raised"
  prev,       \* for a call of new that follows a call of new: that call
  ncalls,     \* calls made so far
  limit,      \* calls the caller makes
  nworkers,   \* the pool's worker threads
  meta,       \* what stat reports of the entries beside their type and content
  os_name,    \* os.name: "posix" or "nt"
  statp,      \* the path of the last fs_stat call
  fsstat      \* what that call returned or raised

uvars == <<paths, unified, reunified, upc>>
bvars == <<fs, fs0, op, items, caller, ret, prev, ncalls, limit, nworkers>>
svars == <<meta, os_name, statp, fsstat>>
vars == <<paths, unified, reunified, upc,
          fs, fs0, op, items, caller, ret, prev, ncalls, limit, nworkers,
          meta, os_name, statp, fsstat>>

\* ---------------------------------------------------------------- bounds
\* work items in one batch
MaxBatch == 2
\* worker threads of the pool
MaxWorkers == 2
\* batch calls one caller makes, of any entry point
MaxCalls == 1
\* calls of new one caller makes in a row
MaxNewCalls == 2
\* the largest uid and gid, in steps of 500
MaxId == 2

\* ---------------------------------------------------------------- inputs
pA == <<sep, "a">>
pAs == <<sep, "a", sep>>
pAx == <<sep, "a", sep, "x">>
pAxs == <<sep, "a", sep, "x", sep>>
pAy == <<sep, "a", sep, "y">>
pB == <<sep, "b">>
pBs == <<sep, "b", sep>>
pBx == <<sep, "b", sep, "x">>

\* the directory /a with the files x and y in it
FsTree ==
  [l \in {Loc(pA), Loc(pAx), Loc(pAy)} |->
     IF l = Loc(pA) THEN Dir ELSE IF l = Loc(pAx) THEN File(1) ELSE File(2)]

\* the file systems a caller starts from: the tree alone, with an empty
\* directory /b, with a file /b
InitialFS == {FsTree, With(FsTree, Loc(pB), Dir), With(FsTree, Loc(pB), File(3))}

pBcs == <<sep, "b", sep, "c", sep>>
pBcx == <<sep, "b", sep, "c", sep, "x">>

pL == <<sep, "l">>
pLs == <<sep, "l", sep>>
pLx == <<sep, "l", sep, "x">>
pK == <<sep, "k">>
pD == <<sep, "d">>
pN == <<sep, "n">>

\* the tree with the links /l to the directory /a, /k to the file /a/x and
\* /d to nothing
FsLinks ==
  [l \in DOMAIN FsTree \cup {Loc(pL), Loc(pK), Loc(pD)} |->
     IF l = Loc(pL) THEN Link(pA)
     ELSE IF l = Loc(pK) THEN Link(pAx)
     ELSE IF l = Loc(pD) THEN Link(pN)
     ELSE FsTree[l]]

\* the paths fs_stat is called with: links, their targets, paths through
\* /l, a missing path
StatMenu == {pL, pLs, pLx, pK, pD, pA, pAs, pAx, pN}

\* the uids and gids entries have: 0 and 1000 are in the databases
Ids == {k * 500 : k \in 0..MaxId}

\* the paths removed from it: the links, paths that lead through /l, the targets
LinkRemoveMenu == {pL, pLs, pLx, pK, pD, pA, pAx}

NewMenu == {pAx, pAs, pAxs, pBs, pBx}
\* with a path of an existing directory and paths two levels below /b
NewDeepMenu == NewMenu \cup {pA, pBcs, pBcx}
RemoveMenu == {pA, pAs, pAx, pB}
PairMenu == {<<pAx, pBx>>, <<pAx, pB>>, <<pAy, pAx>>, <<pA, pB>>}

\* with destinations two levels below /b, one with a trailing separator
MoveMenu == PairMenu \cup {<<pAx, pBcs>>, <<pA, pBcs>>, <<pA, pBcx>>}

\* every set of 1..n members of S
RECURSIVE Batches(_, _)
Batches(S, n) ==
  IF n = 0 THEN {}
  ELSE {{x} : x \in S} \cup {b \cup {x} : b \in Batches(S, n - 1), x \in S}

\* operations: Mapping[str, str], every source once
Mappings == {m \in Batches(PairMenu, MaxBatch) :
               \A u \in m : \A v \in m : u[1] = v[1] => u = v}

\* every absolute path (the data model's Path) over Chars of at most MaxLen
\* characters, whatever its spelling: repeated and trailing separators included
Strings == {s \in UNION {[1..k -> Chars] : k \in 1..MaxLen} : s[1] = sep}

\* every set of at most n strings
RECURSIVE SetsUpTo(_)
SetsUpTo(n) ==
  IF n = 0 THEN {{}}
  ELSE LET prev_ == SetsUpTo(n - 1)
       IN prev_ \cup {s \cup {x} : s \in prev_, x \in Strings}

NoCall == [op |-> "none", args |-> {}, ret |-> "none"]

\* what stat reports of the entries of each kind beside type, size and
\* content: the entries of one kind have one owner, group, mode and mtime
\* (directories 0o755, files pf, links 0o777)
MetaOf(pf, uf, gf, ul, gl) ==
  [dir |-> Inode(493, 0, 0, 86400),
   file |-> Inode(pf, uf, gf, 90061),
   link |-> Inode(511, ul, gl, 0)]

\* no fs_stat call made; every entry owned by uid 0 and gid 0
SInit ==
  /\ meta = MetaOf(420, 0, 0, 0, 0)
  /\ os_name = "posix"
  /\ statp = <<>>
  /\ fsstat = NoStat

\* no batch is in flight and none was called
BInit(f, n, w) ==
  /\ fs = f
  /\ fs0 = f
  /\ op = "none"
  /\ items = <<>>
  /\ caller = "idle"
  /\ ret = "none"
  /\ prev = NoCall
  /\ ncalls = 0
  /\ limit = n
  /\ nworkers = w

UInit ==
  /\ paths \in SetsUpTo(MaxPaths)
  /\ unified = {}
  /\ reunified = {}
  /\ upc = "input"
  /\ BInit(FsTree, 0, 1)
  /\ SInit

\* r = unify_ancestors(paths)
Unify ==
  /\ upc = "input"
  /\ limit = 0
  /\ unified' = unify_ancestors(paths)
  /\ upc' = "unified"
  /\ UNCHANGED <<paths, reunified>>
  /\ UNCHANGED bvars
  /\ UNCHANGED svars

\* unify_ancestors(r)
Reunify ==
  /\ upc = "unified"
  /\ limit = 0
  /\ reunified' = unify_ancestors(unified)
  /\ upc' = "reunified"
  /\ UNCHANGED <<paths, unified>>
  /\ UNCHANGED bvars
  /\ UNCHANGED svars

UNext == Unify \/ Reunify

SpecUnify == UInit /\ [][UNext]_vars

\* ------------------------------------------------- the batch entry points
Settled(it) == it.pc \in {"done", "failed"}
Running(it) == it.pc \notin {"queued", "done", "failed"}
AnyFailed == \E a \in DOMAIN items : items[a].pc = "failed"

\* the first step of the primitive an entry point maps over its items
FirstPc(o) ==
  CASE o = "new" -> "makedirs"
    [] o = "rename" -> "makedirs"
    [] o = "remove" -> "stat"
    [] o = "cut" -> "mv"
    [] o = "copy" -> "stat"

\* the primitive an entry point maps over its items
Primitive(o, f, it) ==
  CASE o = "new" -> _new(f, it)
    [] o = "rename" -> _rename(f, it)
    [] o = "remove" -> _remove(f, it)
    [] o = "cut" -> _cut(f, it)
    [] o = "copy" -> _copy(f, it)

\* the work items pool.map(fn, args) queues: one per entry of args
NewItems(args) ==
  [a \in args |->
     [src |-> a[1], dest |-> a[2], pc |-> "queued", err |-> "none",
      levels |-> <<>>, todo |-> {}, real |-> <<>>]]

\* a call of an entry point: what the caller selected, whether it reduced the
\* selection with unify_ancestors, and the <<src, dest>> entries it passes
Call(o, sel, reduce, args) ==
  [op |-> o, paths |-> sel, unified |-> IF reduce THEN unify_ancestors(sel) ELSE {},
   upc |-> IF reduce THEN "unified" ELSE "input", args |-> args]

\* new(paths)
NewCalls ==
  {Call("new", ps, FALSE, {<<p, <<>>>> : p \in ps}) : ps \in Batches(NewMenu, MaxBatch)}

\* remove(paths), on the selection as it is or on unify_ancestors of it
RemoveCalls ==
  {Call("remove", ps, FALSE, {<<p, <<>>>> : p \in ps}) : ps \in Batches(RemoveMenu, MaxBatch)}
  \cup
  {Call("remove", ps, TRUE, {<<p, <<>>>> : p \in unify_ancestors(ps)}) :
     ps \in Batches(RemoveMenu, MaxBatch)}

\* new(paths), the paths from the larger menu
NewDeepCalls ==
  {Call("new", ps, FALSE, {<<p, <<>>>> : p \in ps}) : ps \in Batches(NewDeepMenu, MaxBatch)}

\* remove(paths) on the file system with links
LinkRemoveCalls ==
  {Call("remove", ps, FALSE, {<<p, <<>>>> : p \in ps}) :
     ps \in Batches(LinkRemoveMenu, MaxBatch)}

\* rename(operations), cut(operations), copy(operations)
RenameCalls == {Call("rename", {}, FALSE, m) : m \in Mappings}
CutCalls == {Call("cut", {}, FALSE, m) : m \in Mappings}
CopyCalls == {Call("copy", {}, FALSE, m) : m \in Mappings}

\* rename, cut and copy of the pairs of the larger menu
MoveMappings == {m \in Batches(MoveMenu, MaxBatch) :
                   \A u \in m : \A v \in m : u[1] = v[1] => u = v}
MoveCalls ==
  {Call(o, {}, FALSE, m) : o \in {"rename", "cut", "copy"}, m \in MoveMappings}

\* the entry point is entered: pool.map(fn, args) queues the items and the
\* caller blocks in tuple(...)
Submit(c) ==
  /\ caller = "idle"
  /\ ncalls < limit
  /\ paths' = c.paths
  /\ unified' = c.unified
  /\ upc' = c.upc
  /\ op' = c.op
  /\ items' = NewItems(c.args)
  /\ caller' = "blocked"
  /\ ret' = "none"
  /\ prev' = IF c.op = "new" /\ op = "new"
               THEN [op |-> op, args |-> DOMAIN items, ret |-> ret] ELSE NoCall
  /\ fs0' = fs
  /\ ncalls' = ncalls + 1
  /\ UNCHANGED <<fs, limit, nworkers, reunified>>
  /\ UNCHANGED svars

\* def new(paths): tuple(pool.map(_new, paths))
CallNew == \E c \in NewCalls : Submit(c)

\* def remove(paths): tuple(pool.map(_remove, paths))
CallRemove == \E c \in RemoveCalls : Submit(c)

\* def rename(operations): tuple(pool.map(_op, operations.items()))
CallRename == \E c \in RenameCalls : Submit(c)

\* def cut(operations): tuple(pool.map(_op, operations.items()))
CallCut == \E c \in CutCalls : Submit(c)

\* def copy(operations): tuple(pool.map(_op, operations.items()))
CallCopy == \E c \in CopyCalls : Submit(c)

\* a pool that starts no further item once one has failed
Start_cancelling(a) ==
  /\ caller = "blocked"
  /\ ~AnyFailed
  /\ items[a].pc = "queued"
  /\ Cardinality({b \in DOMAIN items : Running(items[b])}) < nworkers
  /\ items' = [items EXCEPT ![a].pc = FirstPc(op)]
  /\ UNCHANGED <<fs, fs0, op, caller, ret, prev, ncalls, limit, nworkers>>
  /\ UNCHANGED uvars
  /\ UNCHANGED svars

\* the pool: a free worker takes a queued item, whatever became of the others
Start(a) ==
  /\ caller = "blocked"
  /\ items[a].pc = "queued"
  /\ Cardinality({b \in DOMAIN items : Running(items[b])}) < nworkers
  /\ items' = [items EXCEPT ![a].pc = FirstPc(op)]
  /\ UNCHANGED <<fs, fs0, op, caller, ret, prev, ncalls, limit, nworkers>>
  /\ UNCHANGED uvars
  /\ UNCHANGED svars

\* a worker runs the next step of its item's primitive
Step(a) ==
  /\ Running(items[a])
  /\ \E o \in Primitive(op, fs, items[a]) :
       /\ fs' = o.fs
       /\ items' = [items EXCEPT ![a] = o.it]
  /\ UNCHANGED <<fs0, op, caller, ret, prev, ncalls, limit, nworkers>>
  /\ UNCHANGED uvars
  /\ UNCHANGED svars

\* the pool's map is done when every unit has completed or failed
pool_map_done == \A a \in DOMAIN items : Settled(items[a])

\* an entry point that hands the items to the pool and does not wait for them
Return_without_waiting ==
  /\ caller = "blocked"
  /\ caller' = "idle"
  /\ ret' = IF AnyFailed THEN "raised" ELSE "ok"
  /\ UNCHANGED <<fs, fs0, op, items, prev, ncalls, limit, nworkers>>
  /\ UNCHANGED uvars
  /\ UNCHANGED svars

\* an entry point that swallows the failures of its items
Return_swallowing ==
  /\ caller = "blocked"
  /\ pool_map_done
  /\ caller' = "idle"
  /\ ret' = "ok"
  /\ UNCHANGED <<fs, fs0, op, items, prev, ncalls, limit, nworkers>>
  /\ UNCHANGED uvars
  /\ UNCHANGED svars

\* tuple(pool.map(...)) returns, or raises what a failed item raised
Return ==
  /\ caller = "blocked"
  /\ pool_map_done
  /\ caller' = "idle"
  /\ ret' = IF AnyFailed THEN "raised" ELSE "ok"
  /\ UNCHANGED <<fs, fs0, op, items, prev, ncalls, limit, nworkers>>
  /\ UNCHANGED uvars
  /\ UNCHANGED svars

StartAny == \E a \in DOMAIN items : Start(a)
StepAny == \E a \in DOMAIN items : Step(a)

Init ==
  /\ paths = {}
  /\ unified = {}
  /\ reunified = {}
  /\ upc = "input"
  /\ \E f \in InitialFS : \E w \in 1..MaxWorkers : BInit(f, MaxCalls, w)
  /\ SInit

Next ==
  \/ CallNew
  \/ CallRemove
  \/ CallRename
  \/ CallCut
  \/ CallCopy
  \/ StartAny
  \/ StepAny
  \/ Return

\* one caller, one batch at a time, from any of the initial file systems
Spec == Init /\ [][Next]_vars

\* one batch of calls, just submitted from one of the file systems FSs
BatchInitOf(calls, FSs) ==
  /\ reunified = {}
  /\ \E c \in calls :
     \E f \in FSs : \E w \in 1..MaxWorkers :
       /\ paths = c.paths
       /\ unified = c.unified
       /\ upc = c.upc
       /\ op = c.op
       /\ items = NewItems(c.args)
       /\ fs = f
       /\ fs0 = f
       /\ caller = "blocked"
       /\ ret = "none"
       /\ prev = NoCall
       /\ ncalls = MaxCalls
       /\ limit = MaxCalls
       /\ nworkers = w
       /\ SInit

\* one batch of any entry point, just submitted on the tree
BatchInit ==
  BatchInitOf(NewCalls \cup RemoveCalls \cup RenameCalls \cup CutCalls \cup CopyCalls,
              {FsTree})

BatchNext == StartAny \/ StepAny \/ Return

\* a batch from its submission to its return; the pool's threads run: a queued
\* item is started when a worker is free and a started item takes its steps
FairSpec ==
  /\ BatchInit
  /\ [][BatchNext]_vars
  /\ WF_vars(StartAny)
  /\ WF_vars(StepAny)

NewInit ==
  /\ paths = {}
  /\ unified = {}
  /\ reunified = {}
  /\ upc = "input"
  /\ \E f \in InitialFS : \E w \in 1..MaxWorkers : BInit(f, MaxNewCalls, w)
  /\ SInit

NewNext == CallNew \/ StartAny \/ StepAny \/ Return

\* a caller that calls new time after time
SpecNew == NewInit /\ [][NewNext]_vars

\* one call of new, from its submission to its return
SpecNewBatch == BatchInitOf(NewDeepCalls, InitialFS) /\ [][BatchNext]_vars

\* one call of remove, from its submission to its return
SpecRemove == BatchInitOf(RemoveCalls, InitialFS) /\ [][BatchNext]_vars

\* one call of remove on the file system with links
SpecLink == BatchInitOf(LinkRemoveCalls, {FsLinks}) /\ [][BatchNext]_vars

\* one call of rename, cut or copy, from its submission to its return
SpecMove == BatchInitOf(MoveCalls, InitialFS) /\ [][BatchNext]_vars

\* the file system with links, the owners and groups and the files' mode any
StatInit ==
  /\ paths = {}
  /\ unified = {}
  /\ reunified = {}
  /\ upc = "input"
  /\ BInit(FsLinks, 0, 1)
  /\ \E pf \in {420, 384} :   \* 0o644, 0o600
     \E uf \in Ids : \E gf \in Ids : \E ul \in Ids : \E gl \in Ids :
       meta = MetaOf(pf, uf, gf, ul, gl)
  /\ os_name \in {"posix", "nt"}
  /\ statp = <<>>
  /\ fsstat = NoStat

\* fs_stat(path) is called and returns or raises
CallFsStat ==
  \E p \in StatMenu :
    /\ statp' = p
    /\ fsstat' = fs_stat(fs, meta, os_name, p)
    /\ UNCHANGED <<meta, os_name>>
    /\ UNCHANGED uvars
    /\ UNCHANGED bvars

\* a caller that calls fs_stat time after time
SpecStat == StatInit /\ [][CallFsStat]_vars

\* ------------------------------------------------- claims on the reducer
\* r names a proper ancestor directory of p: PurePath(r) in PurePath(p).parents
IsAncestorPath(r, p) ==
  LET a == parse_parts(r)
      b == parse_parts(p)
  IN /\ a.root = b.root
     /\ Len(a.names) < Len(b.names)
     /\ a.names = SubSeq(b.names, 1, Len(a.names))

\* C1: unify_ancestors(S) is a subset of S and holds exactly the members p of
\* S none of whose ancestors, as ancestors(p) computes them, is a member of S.
C1_ExactReduction ==
  upc # "input" =>
    /\ unified \subseteq paths
    /\ \A p \in paths : (p \in unified) <=> (\A q \in ancestors(p) : q \notin paths)

\* a set with a member kept and a member dropped for an ancestor in the set
C1_Witness ==
  /\ upc = "unified"
  /\ \E p \in paths : p \notin unified /\ ancestors(p) \cap unified # {}

\* C2: unify_ancestors is idempotent: reducing the reduced set changes nothing.
C2_Idempotent ==
  upc = "reunified" => reunified = unified

\* the second reduction ran on a set the first one had made smaller
C2_Witness ==
  /\ upc = "reunified"
  /\ unified # {}
  /\ unified # paths

\* C3: no two elements of unify_ancestors(S) are in an ancestor relationship:
\* no element of the result names an ancestor directory of another element.
C3_NoAncestorPair ==
  upc # "input" => \A r \in unified : \A p \in unified : ~IsAncestorPath(r, p)

\* C4: every path p of S is covered by exactly one member r of the reduced set,
\* r = p or r an ancestor of p, so a recursive operation over the reduced set
\* reaches every subtree named in S once and only once.
C4_CoveredExactlyOnce ==
  upc # "input" =>
    \A p \in paths :
      Cardinality({r \in unified : r = p \/ IsAncestorPath(r, p)}) = 1

\* ------------------------------------------- claims on the batch calls
\* the caller reduced a selection of a directory R and an entry c inside it
ReducedPair(R, c) ==
  /\ op = "remove"
  /\ upc = "unified"
  /\ paths = {R, c}
  /\ IsDir(fs0, Loc(R))
  /\ Exists(fs0, Loc(c))
  /\ IsPrefix(Loc(R), Loc(c))
  /\ Loc(R) # Loc(c)

\* C5: a directory named with a trailing separator still collapses its
\* children: with /a/x and /a/y on disk, unify_ancestors({"/a/", "/a/x"}) is a
\* single recursive root and remove of it is one work item, which deletes /a
\* and both children.
C5_TrailingSeparatorCollapses ==
  (ReducedPair(pAs, pAx) /\ fs0 = FsTree) =>
    /\ Cardinality(unified) = 1
    /\ Cardinality(DOMAIN items) = 1
    /\ caller = "idle" => (ret = "ok" /\ Under(fs, <<>>) = {})

\* C6: for a directory R and a child c inside it, remove(unify_ancestors({R, c}))
\* fails no work item under any scheduling, does not raise, and leaves neither
\* R nor anything below R.
C6_ReducedRemoveNeverFails ==
  \A R \in paths : \A c \in paths :
    ReducedPair(R, c) =>
      /\ \A a \in DOMAIN items : items[a].pc # "failed"
      /\ caller = "idle" =>
           (ret = "ok" /\ ~Exists(fs, Loc(R)) /\ Under(fs, Loc(R)) = {})

\* C7: a batch entry point returns, normally or by raising, only after every
\* work item of the batch has completed or failed: none is queued or running.
C7_ReturnsAfterAllItems ==
  (caller = "idle" /\ op # "none") =>
    \A a \in DOMAIN items : items[a].pc \in {"done", "failed"}

\* a call of two items has raised
C7_Witness ==
  /\ caller = "idle"
  /\ ret = "raised"
  /\ Cardinality(DOMAIN items) = 2

\* C8: no short-circuit: once an item of a batch has failed, every other item
\* of the batch is still started and runs to its completion or failure, with
\* as many workers as items or fewer.
C8_NoShortCircuit ==
  (caller = "blocked" /\ AnyFailed) ~> (caller = "blocked" /\ pool_map_done)

\* the only worker runs an item after another item has failed
C8_Witness ==
  /\ nworkers = 1
  /\ \E a \in DOMAIN items : \E b \in DOMAIN items :
       items[a].pc = "failed" /\ Running(items[b])

\* C9: a batch with a failed item never returns success: the call raises, and
\* returning undoes nothing of what the items did to the file system.
C9_FailureRaisedNothingRolledBack ==
  [][(caller = "blocked" /\ caller' = "idle") =>
       (fs' = fs /\ (AnyFailed => ret' = "raised"))]_vars

\* a call has raised with an item completed, whose effect is on disk
C9_Witness ==
  /\ caller = "idle"
  /\ ret = "raised"
  /\ \E a \in DOMAIN items : items[a].pc = "done"
  /\ fs # fs0

\* C10: new is idempotent on a path: new([path]) called again after it
\* succeeded does not fail and changes nothing; and no call of new changes the
\* type or content of an entry that exists (a file is not truncated, a
\* directory keeps its entries).
C10_NewIdempotent ==
  /\ op = "new" => \A l \in DOMAIN fs0 : l \in DOMAIN fs /\ fs[l] = fs0[l]
  /\ ( /\ op = "new"
       /\ caller = "idle"
       /\ Cardinality(DOMAIN items) = 1
       /\ prev = [op |-> "new", args |-> DOMAIN items, ret |-> "ok"] )
     => (ret = "ok" /\ fs = fs0)

\* new([path]) has returned a second time, on a file that had content
C10_Witness ==
  /\ op = "new"
  /\ caller = "idle"
  /\ ret = "ok"
  /\ DOMAIN items = {<<pAx, <<>>>>}
  /\ prev = [op |-> "new", args |-> DOMAIN items, ret |-> "ok"]
  /\ fs[Loc(pAx)] = File(1)

\* ------------------------------------------------- claims on new
\* the call of one path that has returned without error
ReturnedOk(o) ==
  /\ op = o
  /\ caller = "idle"
  /\ ret = "ok"
  /\ Cardinality(DOMAIN items) = 1

\* C11: after new([path]) has returned without error, the entry at path is a
\* directory if path ends with the separator and a regular file otherwise, and
\* every ancestor of path is a directory, whatever was at path before.
C11_NewMakesRequestedType ==
  ReturnedOk("new") =>
    \A a \in DOMAIN items :
      LET l == Loc(a[1])
      IN /\ IF endswith_sep(a[1]) THEN IsDir(fs, l) ELSE IsFile(fs, l)
         /\ \A k \in 1..(Len(l) - 1) : IsDir(fs, SubSeq(l, 1, k))

\* two entries of a batch of new ask for different types at one place: a file
\* and a directory at one location, or a file where the other needs a directory
TypeConflict(p, q) ==
  \/ Loc(p) = Loc(q) /\ endswith_sep(p) # endswith_sep(q)
  \/ ~endswith_sep(p) /\ IsPrefix(Loc(p), Loc(q)) /\ Loc(p) # Loc(q)

\* a batch of new of two paths or more below one directory that is missing
SharedMissingAncestor ==
  /\ op = "new"
  /\ Cardinality(DOMAIN items) >= 2
  /\ \E a \in DOMAIN items : \E k \in 1..(Len(Loc(a[1])) - 1) :
       LET m == SubSeq(Loc(a[1]), 1, k)
       IN /\ ~Exists(fs0, m)
          /\ \A b \in DOMAIN items : IsPrefix(m, Loc(b[1])) /\ m # Loc(b[1])
  /\ \A a \in DOMAIN items : \A b \in DOMAIN items : ~TypeConflict(a[1], b[1])

\* C20: a batch of new whose entries share missing ancestor directories and
\* do not conflict in type is safe under every interleaving: no item fails,
\* the call does not raise, and on return every entry is there with the type
\* asked for and every ancestor is a directory.
C20_ConcurrentNewSafe ==
  SharedMissingAncestor =>
    /\ \A a \in DOMAIN items : items[a].pc # "failed"
    /\ caller = "idle" =>
         /\ ret = "ok"
         /\ \A a \in DOMAIN items :
              LET l == Loc(a[1])
              IN /\ IF endswith_sep(a[1]) THEN IsDir(fs, l) ELSE IsFile(fs, l)
                 /\ \A k \in 1..(Len(l) - 1) : IsDir(fs, SubSeq(l, 1, k))

\* new({"/b/c/", "/b/c/x"}) has returned with /b missing before, after both
\* items had started on two workers
C20_Witness ==
  /\ SharedMissingAncestor
  /\ DOMAIN items = {<<pBcs, <<>>>>, <<pBcx, <<>>>>}
  /\ nworkers >= 2
  /\ ~Exists(fs0, Loc(pB))
  /\ caller = "idle"
  /\ ret = "ok"
  /\ IsFile(fs, Loc(pBcx))

\* ------------------------------------------------- claims on remove
\* C12: remove([path]) of a symbolic link deletes the link entry alone: while
\* the call runs no other entry changes, its item does not fail, and on return
\* the link is absent and the target and all below it are as they were.
C12_RemoveLinkOnly ==
  \A a \in DOMAIN items :
    (op = "remove" /\ DOMAIN items = {a}
       /\ IsLink(fs0, Loc(a[1])) /\ ~endswith_sep(a[1])) =>
      /\ \A l \in DOMAIN fs0 \ {Loc(a[1])} : l \in DOMAIN fs /\ fs[l] = fs0[l]
      /\ items[a].pc # "failed"
      /\ caller = "idle" => (ret = "ok" /\ fs = Without(fs0, {Loc(a[1])}))

\* remove(["/l"]) has returned: the link to /a is gone, /a and its files stay
C12_Witness ==
  /\ op = "remove"
  /\ caller = "idle"
  /\ ret = "ok"
  /\ DOMAIN items = {<<pL, <<>>>>}
  /\ IsLink(fs0, Loc(pL))
  /\ ~Exists(fs, Loc(pL))
  /\ fs[Loc(pAx)] = File(1)
  /\ fs[Loc(pAy)] = File(2)

\* ------------------------------------- claims on rename, cut and copy
\* the entry at l with all below it, by the names below l
Tree(f, l) ==
  [r \in {SubSeq(m, Len(l) + 1, Len(m)) : m \in ({l} \cup Under(f, l)) \cap DOMAIN f} |->
     f[l \o r]]

\* the call of the one pair <<src, dest>> of entry point o
OnePair(o, a) == op = o /\ DOMAIN items = {a}

\* C13: rename({src: dest}) with src existing and ancestors of dest missing
\* creates the missing ancestors and moves src: when it has returned, src is
\* absent, dest holds the entry src was, and dest's ancestors are directories.
C13_RenameProvisions ==
  \A a \in DOMAIN items :
    ( /\ OnePair("rename", a)
      /\ Exists(fs0, Loc(a[1]))
      /\ \E k \in 1..(Len(Loc(a[2])) - 1) : ~Exists(fs0, SubSeq(Loc(a[2]), 1, k))
      /\ caller = "idle" /\ ret = "ok" ) =>
      /\ ~Exists(fs, Loc(a[1]))
      /\ Exists(fs, Loc(a[2]))
      /\ Tree(fs, Loc(a[2])) = Tree(fs0, Loc(a[1]))
      /\ \A k \in 1..(Len(Loc(a[2])) - 1) : IsDir(fs, SubSeq(Loc(a[2]), 1, k))

\* C14: cut({src: dest}) with the parent directory of dest missing fails, for
\* a file and for a directory src: it raises, no directory is ever created,
\* and src stays in place.
C14_CutNeverProvisions ==
  \A a \in DOMAIN items :
    ( /\ OnePair("cut", a)
      /\ Exists(fs0, Loc(a[1]))
      /\ ~Exists(fs0, Parent(Loc(a[2]))) ) =>
      /\ \A l \in DOMAIN fs \ DOMAIN fs0 : fs[l].kind # "dir"
      /\ Exists(fs, Loc(a[1])) /\ Tree(fs, Loc(a[1])) = Tree(fs0, Loc(a[1]))
      /\ caller = "idle" => ret = "raised"

\* C15: when cut({src: dest}) has returned without error, src is absent and
\* the entry at exactly dest is the entry src was, whether dest was absent, a
\* file or a directory before.
C15_CutLandsAtDest ==
  \A a \in DOMAIN items :
    (OnePair("cut", a) /\ caller = "idle" /\ ret = "ok") =>
      /\ ~Exists(fs, Loc(a[1]))
      /\ Exists(fs, Loc(a[2]))
      /\ Tree(fs, Loc(a[2])) = Tree(fs0, Loc(a[1]))

\* C16: when copy({src: dest}) has returned without error, dest holds what
\* src held when the call was made (the subtree of a directory, the content
\* of a file) and src is as it was.
C16_CopyEqualsSource ==
  \A a \in DOMAIN items :
    (OnePair("copy", a) /\ caller = "idle" /\ ret = "ok") =>
      /\ Exists(fs, Loc(a[2]))
      /\ Tree(fs, Loc(a[2])) = Tree(fs0, Loc(a[1]))
      /\ Exists(fs, Loc(a[1]))
      /\ Tree(fs, Loc(a[1])) = Tree(fs0, Loc(a[1]))

\* the caller passed a directory R and an entry c inside it as they are
UnreducedPair(R, c) ==
  /\ op = "remove"
  /\ upc = "input"
  /\ DOMAIN items = {<<R, <<>>>>, <<c, <<>>>>}
  /\ IsDir(fs0, Loc(R))
  /\ Exists(fs0, Loc(c))
  /\ IsPrefix(Loc(R), Loc(c))
  /\ Loc(R) # Loc(c)

\* C19: in remove({R, c}) with c inside the directory R and no reduction, when
\* R's recursive delete has removed c before c's item has done its stat or
\* its delete, c's item fails with FileNotFoundError, and the call raises.
C19_OverlapRaceFails ==
  [][\A R \in paths : \A c \in paths :
       UnreducedPair(R, c) =>
         LET ic == <<c, <<>>>>
         IN /\ (~Exists(fs, Loc(c)) /\ ~Settled(items[ic]) /\ Settled(items'[ic])) =>
                 (items'[ic].pc = "failed" /\ items'[ic].err = "FileNotFoundError")
            /\ (items[ic].pc = "failed" /\ caller = "blocked" /\ caller' = "idle") =>
                 ret' = "raised"]_vars

\* remove({"/a", "/a/x"}) has raised: the item of /a deleted the tree, the
\* item of /a/x had passed its stat and failed in its delete
C19_Witness ==
  /\ UnreducedPair(pA, pAx)
  /\ caller = "idle"
  /\ ret = "raised"
  /\ items[<<pA, <<>>>>].pc = "done"
  /\ items[<<pAx, <<>>>>].pc = "failed"
  /\ items[<<pAx, <<>>>>].err = "FileNotFoundError"
  /\ ~Exists(fs, Loc(pA))

\* ------------------------------------------------- claims on fs_stat
\* the entry path names is a symbolic link (lstat says so)
SymlinkAt(f, path) == IsLink(f, Loc(path)) /\ ~endswith_sep(path)

\* int(s) of a string of decimal digits
RECURSIVE int(_)
int(s) ==
  LET digit(c) == CHOOSE d \in 0..9 : str(d) = <<c>>
  IN IF s = <<>> THEN 0 ELSE 10 * int(SubSeq(s, 1, Len(s) - 1)) + digit(s[Len(s)])
IsDecimal(s) ==
  /\ s # <<>>
  /\ \A i \in 1..Len(s) : \E d \in 0..9 : str(d) = <<s[i]>>
  /\ (Len(s) > 1 => s[1] # "0")

\* C17: fs_stat reports the entry itself and changes nothing on disk: the
\* link field is the (non-empty) link target if path is a symbolic link and
\* None if it is not, and for a link the permissions and the size are the
\* link's own.
C17_StatReportsLinkItself ==
  /\ statp # <<>> => fs = fs0
  /\ fsstat.status = "returned" =>
       IF SymlinkAt(fs, statp)
         THEN /\ fsstat.link = fs[Loc(statp)].data
              /\ fsstat.link # <<>>
              /\ fsstat.link # None
              /\ fsstat.permissions[1] = "l"
              /\ fsstat.permissions = filemode(S_IF("link") + meta.link.perm)
              /\ fsstat.size = Len(fs[Loc(statp)].data)
         ELSE fsstat.link = None
  /\ (statp # <<>> /\ SymlinkAt(fs, statp)) => fsstat.status = "returned"

\* fs_stat of the link /l to the directory /a has returned
C17_Witness ==
  /\ statp = pL
  /\ fsstat.status = "returned"
  /\ fsstat.link = pA
  /\ IsDir(fs, Loc(pA))
  /\ meta.link.perm # meta.dir.perm

\* C18: an unknown owner or group never makes fs_stat fail: for a path stat
\* can reach, fs_stat returns, and where the entry's uid (gid) is not in the
\* user (group) database the user (group) field is the decimal string of it.
C18_UnknownIdIsDecimal ==
  (statp # <<>> /\ ~IsErrno(lookup(fs, statp))) =>
    /\ fsstat.status = "returned"
    /\ LET k == lookup(fs, statp)
       IN /\ meta[k].uid \notin DOMAIN passwd =>
               (IsDecimal(fsstat.user) /\ int(fsstat.user) = meta[k].uid)
          /\ meta[k].gid \notin DOMAIN group =>
               (IsDecimal(fsstat.group) /\ int(fsstat.group) = meta[k].gid)

\* fs_stat has returned for a file whose uid and gid are in no database
C18_Witness ==
  /\ os_name = "posix"
  /\ statp = pAx
  /\ fsstat.status = "returned"
  /\ meta.file.uid \notin DOMAIN passwd
  /\ meta.file.gid \notin DOMAIN group
  /\ fsstat.user = <<"5", "0", "0">>

====
